---- MODULE Spec2Model ----
(***************************************************************************)
(* The telephone_production sensitivity-analysis script                    *)
(* (src/sensitivity_analysis.py) as a state machine.  The script builds a  *)
(* linear program, solves it, reads dual values, slacks, ranging and       *)
(* reduced costs, mutates the model (overtime variable, objective          *)
(* coefficients), re-solves it, and finally solves a linear relaxation.    *)
(*                                                                         *)
(* The optimisation engine the script calls is modelled by what it         *)
(* computes: the optimal vertices of the linear program and the optimal    *)
(* basic solutions of its dual, in exact rational arithmetic.  Where the   *)
(* program has several optimal bases the engine may return any of them.    *)
(***************************************************************************)
EXTENDS Integers, Sequences, FiniteSets, TLC

(***************************************************************************)
(* Exact arithmetic.  A rational is <<n, d>> with d > 0 and gcd(n, d) = 1. *)
(***************************************************************************)
Abs(n) == IF n < 0 THEN -n ELSE n

RECURSIVE Gcd(_, _)
Gcd(a, b) == IF b = 0 THEN Abs(a) ELSE Gcd(b, a % b)

Rat(n, d) ==
  LET g == Gcd(Abs(n), Abs(d))
      s == IF d < 0 THEN -1 ELSE 1
  IN  <<(s * n) \div g, (s * d) \div g>>

RatInt(k) == <<k, 1>>
RatMul(p, q) == Rat(p[1] * q[1], p[2] * q[2])
RatSub(p, q) == Rat(p[1] * q[2] - q[1] * p[2], p[2] * q[2])
RatLeq(p, q) == p[1] * q[2] <= q[1] * p[2]
RatLt(p, q) == p[1] * q[2] < q[1] * p[2]
RatFloor(p) == p[1] \div p[2]

Dot(a, b) == a[1] * b[1] + a[2] * b[2] + a[3] * b[3]
VSub(a, b) == <<a[1] - b[1], a[2] - b[2], a[3] - b[3]>>
Unit(j) == [q \in 1..3 |-> IF q = j THEN 1 ELSE 0]
NegUnit(j) == [q \in 1..3 |-> IF q = j THEN -1 ELSE 0]
Zero3 == <<0, 0, 0>>

Det3(r1, r2, r3) ==
    r1[1] * (r2[2] * r3[3] - r2[3] * r3[2])
  - r1[2] * (r2[1] * r3[3] - r2[3] * r3[1])
  + r1[3] * (r2[1] * r3[2] - r2[2] * r3[1])

(***************************************************************************)
(* The model object.  Variables are numbered in declaration order: 1 desk, *)
(* 2 cell, 3 overtime (once added).  A linear expression is a constant     *)
(* plus a coefficient per variable; a constraint is lhs <= rhs.            *)
(***************************************************************************)
NoSolution == [status |-> "none"]

Model(name) ==
  [name |-> name, vars |-> <<>>, cts |-> <<>>, obj |-> Zero3,
   sol |-> NoSolution, solved |-> FALSE]

\* The variable declared as the script's comments describe it ("the integer
\* variable desk").
continuous_var_as_integer(m, name, lb, hasUb, ub) ==
  [m EXCEPT !.vars = Append(@, [name |-> name, dom |-> "integer",
                                lb |-> lb, hasUb |-> hasUb, ub |-> ub]),
            !.solved = FALSE]

\* mdl.continuous_var(name=..., lb=..., ub=...): a new continuous variable;
\* the model changes, so its last solution no longer describes it.
continuous_var(m, name, lb, hasUb, ub) ==
  [m EXCEPT !.vars = Append(@, [name |-> name, dom |-> "continuous",
                                lb |-> lb, hasUb |-> hasUb, ub |-> ub]),
            !.solved = FALSE]

\* mdl.add_constraint(lhs <= rhs, ctname=...)
add_constraint(m, lhs, rhsConst, name) ==
  [m EXCEPT !.cts = Append(@, [name |-> name, lhs |-> lhs,
                               rhs |-> [const |-> rhsConst, coefs |-> Zero3]]),
            !.solved = FALSE]

\* mdl.maximize(expr): replaces the objective.
maximize(m, coefs) == [m EXCEPT !.obj = coefs, !.solved = FALSE]

\* A right-hand-side assignment that is lost.
set_rhs_dropped(m, i, const, coefs) == [m EXCEPT !.solved = FALSE]

\* ct.rhs = expr: replaces the right-hand side of constraint i.
set_rhs(m, i, const, coefs) ==
  [m EXCEPT !.cts[i].rhs = [const |-> const, coefs |-> coefs],
            !.solved = FALSE]

NVars(m) == Len(m.vars)
AllContinuous(m) == \A j \in 1..NVars(m) : m.vars[j].dom = "continuous"

(***************************************************************************)
(* The linear program of a model in row form  a . x <= b  over three       *)
(* columns; a column without a variable is held at 0.                      *)
(***************************************************************************)
VarLb(m, j) == IF j <= NVars(m) THEN m.vars[j].lb ELSE 0
VarHasUb(m, j) == IF j <= NVars(m) THEN m.vars[j].hasUb ELSE TRUE
VarUb(m, j) == IF j <= NVars(m) THEN m.vars[j].ub ELSE 0

CtRows(m) ==
  [i \in 1..Len(m.cts) |->
     [a |-> VSub(m.cts[i].lhs, m.cts[i].rhs.coefs), b |-> m.cts[i].rhs.const,
      kind |-> "ct", idx |-> i]]

LbRows(m) ==
  [j \in 1..3 |-> [a |-> NegUnit(j), b |-> -VarLb(m, j), kind |-> "lb", idx |-> j]]

UbRows(m) ==
  SelectSeq([j \in 1..3 |-> [a |-> Unit(j), b |-> VarUb(m, j), kind |-> "ub", idx |-> j]],
            LAMBDA r : VarHasUb(m, r.idx))

Rows(m) == CtRows(m) \o LbRows(m) \o UbRows(m)

Triples(n) == {t \in (1..n) \X (1..n) \X (1..n) : t[1] < t[2] /\ t[2] < t[3]}

RepCol(r, c) == [q \in 1..3 |-> IF q = c THEN r.b ELSE r.a[q]]

\* The point where the three rows of t are tight (Cramer's rule), as
\* [num, den] with den > 0 and the four numbers coprime.
BasisPoint(R, t) ==
  LET d == Det3(R[t[1]].a, R[t[2]].a, R[t[3]].a)
      n == [c \in 1..3 |-> Det3(RepCol(R[t[1]], c), RepCol(R[t[2]], c), RepCol(R[t[3]], c))]
      s == IF d < 0 THEN -1 ELSE 1
      g == Gcd(Gcd(Gcd(Abs(d), Abs(n[1])), Abs(n[2])), Abs(n[3]))
  IN  [num |-> [c \in 1..3 |-> (s * n[c]) \div g], den |-> (s * d) \div g]

Independent(R, t) == Det3(R[t[1]].a, R[t[2]].a, R[t[3]].a) # 0

PointFeasible(R, p) == \A i \in 1..Len(R) : Dot(R[i].a, p.num) <= R[i].b * p.den

\* The vertices of the feasible region.
FeasibleVertices(R) ==
  {p \in {BasisPoint(R, t) : t \in {u \in Triples(Len(R)) : Independent(R, u)}} :
     PointFeasible(R, p)}

PointValue(c, p) == Rat(Dot(c, p.num), p.den)

\* An engine that stops at the first feasible vertex it meets.
AnyFeasibleVertex(R, c) == FeasibleVertices(R)

OptimalVertices(R, c) ==
  LET V == FeasibleVertices(R)
  IN  {p \in V : \A q \in V : RatLeq(PointValue(c, q), PointValue(c, p))}

\* The multipliers y >= 0 on the rows of t with  sum y_k * a_k = c  (the
\* dual basic solution of t), as [num, den] over all rows, 0 off the basis.
BasisDual(R, c, t) ==
  LET d == Det3(R[t[1]].a, R[t[2]].a, R[t[3]].a)
      s == IF d < 0 THEN -1 ELSE 1
      y1 == s * Det3(c, R[t[2]].a, R[t[3]].a)
      y2 == s * Det3(R[t[1]].a, c, R[t[3]].a)
      y3 == s * Det3(R[t[1]].a, R[t[2]].a, c)
      g == Gcd(Gcd(Gcd(Abs(d), Abs(y1)), Abs(y2)), Abs(y3))
  IN  [num |-> [i \in 1..Len(R) |->
                  IF i = t[1] THEN y1 \div g
                  ELSE IF i = t[2] THEN y2 \div g
                  ELSE IF i = t[3] THEN y3 \div g ELSE 0],
       den |-> (s * d) \div g]

DualFeasible(y) == \A i \in DOMAIN y.num : y.num[i] >= 0

RECURSIVE SumTo(_, _)
SumTo(f, n) == IF n = 0 THEN 0 ELSE f[n] + SumTo(f, n - 1)

DualValue(R, y) == Rat(SumTo([i \in 1..Len(R) |-> R[i].b * y.num[i]], Len(R)), y.den)

FeasibleDuals(R, c) ==
  {y \in {BasisDual(R, c, t) : t \in {u \in Triples(Len(R)) : Independent(R, u)}} :
     DualFeasible(y)}

\* An engine that reports the multipliers of a basis that is not optimal.
AnyFeasibleDual(R, c) == FeasibleDuals(R, c)

OptimalDuals(R, c) ==
  LET Y == FeasibleDuals(R, c)
  IN  {y \in Y : \A z \in Y : RatLeq(DualValue(R, y), DualValue(R, z))}


(***************************************************************************)
(* mdl.solve().  A continuous model is solved as a linear program; the     *)
(* result carries the point, the objective value, and per constraint the   *)
(* dual value and the slack, per variable the reduced cost.  A model with  *)
(* integer variables is solved by fixing the integer variables to every    *)
(* integer assignment in range; it has no dual information.                *)
(***************************************************************************)
RowIndex(R, kind, idx) == {i \in 1..Len(R) : R[i].kind = kind /\ R[i].idx = idx}

RowDual(R, y, kind, idx) ==
  LET I == RowIndex(R, kind, idx)
  IN  IF I = {} THEN RatInt(0) ELSE Rat(y.num[CHOOSE i \in I : TRUE], y.den)

LpSolution(m, p, y) ==
  LET R == Rows(m)
  IN  [status |-> "optimal",
       x |-> [j \in 1..3 |-> Rat(p.num[j], p.den)],
       obj |-> PointValue(m.obj, p),
       dual |-> [i \in 1..Len(m.cts) |-> RowDual(R, y, "ct", i)],
       slack |-> [i \in 1..Len(m.cts) |->
                    Rat(R[i].b * p.den - Dot(R[i].a, p.num), p.den)],
       rc |-> [j \in 1..3 |-> RatSub(RowDual(R, y, "ub", j), RowDual(R, y, "lb", j))]]

LpOutcomes(m) ==
  LET R == Rows(m)
  IN  IF FeasibleVertices(R) = {} THEN {[status |-> "infeasible"]}
      ELSE IF FeasibleDuals(R, m.obj) = {} THEN {[status |-> "unbounded"]}
      ELSE {LpSolution(m, p, y) : p \in OptimalVertices(R, m.obj),
                                  y \in OptimalDuals(R, m.obj)}

\* The model with every variable continuous (its linear relaxation).
Continuous(m) ==
  [m EXCEPT !.vars = [j \in 1..Len(m.vars) |-> [m.vars[j] EXCEPT !.dom = "continuous"]]]

\* The model with variable j fixed to k.
Fixed(m, j, k) ==
  [m EXCEPT !.vars[j] = [@ EXCEPT !.dom = "continuous", !.lb = k, !.hasUb = TRUE, !.ub = k]]

IntegerVars(m) == {j \in 1..NVars(m) : m.vars[j].dom = "integer"}

\* The largest value variable j takes in the linear relaxation, rounded down.
IntegerUb(m, j) ==
  LET V == FeasibleVertices(Rows(Continuous(m)))
  IN  RatFloor(CHOOSE v \in {Rat(p.num[j], p.den) : p \in V} :
                 \A p \in V : RatLeq(Rat(p.num[j], p.den), v))

RECURSIVE FixAll(_, _, _)
FixAll(m, J, f) ==
  IF J = {} THEN m
  ELSE LET j == CHOOSE q \in J : TRUE IN FixAll(Fixed(m, j, f[j]), J \ {j}, f)

MipOutcomes(m) ==
  LET J == IntegerVars(m)
      relaxed == Continuous(m)
  IN  IF FeasibleVertices(Rows(relaxed)) = {} THEN {[status |-> "infeasible"]}
      ELSE IF FeasibleDuals(Rows(relaxed), m.obj) = {} THEN {[status |-> "unbounded"]}
      ELSE
        LET Assignments ==
              {f \in [J -> 0..(CHOOSE u \in {IntegerUb(m, j) : j \in J} :
                                 \A j \in J : IntegerUb(m, j) <= u)] :
                 \A j \in J : m.vars[j].lb <= f[j] /\ f[j] <= IntegerUb(m, j)}
            Points == UNION {OptimalVertices(Rows(FixAll(m, J, f)), m.obj) : f \in Assignments}
            Best == {p \in Points : \A q \in Points :
                       RatLeq(PointValue(m.obj, q), PointValue(m.obj, p))}
        IN  IF Points = {} THEN {[status |-> "infeasible"]}
            ELSE {[status |-> "optimal",
                   x |-> [j \in 1..3 |-> Rat(p.num[j], p.den)],
                   obj |-> PointValue(m.obj, p)] : p \in Best}

SolveOutcomes(m) == IF AllContinuous(m) THEN LpOutcomes(m) ELSE MipOutcomes(m)

\* The model after solve() returned sol: a solution replaces the model's last
\* one and the model is solved; without a solution the model is left as it was.
Solved(m, sol) ==
  IF sol.status = "optimal" THEN [m EXCEPT !.sol = sol, !.solved = TRUE] ELSE m

\* The optimal objective value of a model that has one.
OptimalValue(m) == (CHOOSE sol \in SolveOutcomes(m) : TRUE).obj
HasOptimum(m) == \E sol \in SolveOutcomes(m) : sol.status = "optimal"


(***************************************************************************)
(* LinearRelaxer.make_relaxed_model(m): a new model with the variables of  *)
(* m made continuous and its constraints and objective copied.  The result *)
(* is the pair of the model passed in, as the call leaves it, and the new  *)
(* model.                                                                  *)
(***************************************************************************)
integer_var(m, name, lb, hasUb, ub) ==
  [m EXCEPT !.vars = Append(@, [name |-> name, dom |-> "integer",
                                lb |-> lb, hasUb |-> hasUb, ub |-> ub]),
            !.solved = FALSE]

\* A relaxer that recreates the variables with the default bounds.
RelaxedCopyDefaultBounds(m) ==
  [name |-> "lp_" \o m.name,
   vars |-> [j \in 1..Len(m.vars) |->
               [m.vars[j] EXCEPT !.dom = "continuous", !.lb = 0, !.hasUb = FALSE, !.ub = 0]],
   cts |-> m.cts, obj |-> m.obj, sol |-> NoSolution, solved |-> FALSE]

RelaxedCopy(m) ==
  [name |-> "lp_" \o m.name,
   vars |-> [j \in 1..Len(m.vars) |-> [m.vars[j] EXCEPT !.dom = "continuous"]],
   cts |-> m.cts, obj |-> m.obj, sol |-> NoSolution, solved |-> FALSE]

\* A relaxer that relaxes the model it is given in place before copying it.
make_relaxed_model_in_place(m) ==
  [source |-> [m EXCEPT !.name = "lp_" \o m.name, !.sol = NoSolution, !.solved = FALSE],
   relaxed |-> RelaxedCopy(m)]

make_relaxed_model(m) == [source |-> m, relaxed |-> RelaxedCopy(m)]

(***************************************************************************)
(* The script.  pc is the line about to run.                               *)
(***************************************************************************)
VARIABLES pc, mdl, rmdl, rrmdl, sols, cpx, lastRead

vars == <<pc, mdl, rmdl, rrmdl, sols, cpx, lastRead>>

\* Largest lower bound tried for desk and cell (the script passes lb=0).
MaxLb == 5

\* The script with the objective ranging of lines 61-62 moved above the
\* solve of line 56.
ScriptRangingBeforeSolve ==
  <<"L26", "L29", "L32", "L36", "L37", "L38", "L41", "L42", "L43", "L46", "L47",
    "L53", "L54", "L55", "L61", "L62", "L56", "L57", "L64", "L65", "L66", "L67",
    "L68", "L69", "L70", "L74", "L75", "L80", "L81", "L82", "L83", "L84", "done">>

Script ==
  <<"L26", "L29", "L32", "L36", "L37", "L38", "L41", "L42", "L43", "L46", "L47",
    "L53", "L54", "L55", "L56", "L57", "L61", "L62", "L64", "L65", "L66", "L67",
    "L68", "L69", "L70", "L74", "L75", "L80", "L81", "L82", "L83", "L84", "done">>

NextPc(l) == Script[(CHOOSE i \in 1..Len(Script) : Script[i] = l) + 1]

Unbound == Model("<unbound>")
NoRead == [at |-> "none", field |-> "none", model |-> "none",
           solved |-> FALSE, continuous |-> FALSE]

\* A variable declared with the given domain.
DeclareVar(m, dom, name, lb) ==
  IF dom = "integer" THEN integer_var(m, name, lb, FALSE, 0)
  ELSE continuous_var(m, name, lb, FALSE, 0)

\* Lines 7-23: the telephone_production model.
TelephoneModel(deskDom, cellDom, deskLb, cellLb) ==
  LET m0 == Model("telephone_production")
      m1 == DeclareVar(m0, deskDom, "desk", deskLb)
      m2 == DeclareVar(m1, cellDom, "cell", cellLb)
      m3 == add_constraint(m2, <<2, 1, 0>>, 8, "machine_1")
      m4 == add_constraint(m3, <<1, 2, 0>>, 8, "machine_2")
      m5 == add_constraint(m4, <<3, 3, 0>>, 24, "factory")
  IN  maximize(m5, <<300, 200, 0>>)

BaseModel(deskLb, cellLb) == TelephoneModel("continuous", "continuous", deskLb, cellLb)

Init ==
  /\ pc = "L26"
  /\ \E deskLb \in 0..MaxLb, cellLb \in 0..MaxLb : mdl = BaseModel(deskLb, cellLb)
  /\ rmdl = Unbound
  /\ rrmdl = Unbound
  /\ sols = [n \in {"s", "s1", "s2", "s3", "rs", "rrs"} |-> NoSolution]
  /\ cpx = "unset"
  /\ lastRead = NoRead

\* The script's own data: lb=0 for desk and cell (lines 12-13).
IsExample == mdl.vars[1].lb = 0 /\ mdl.vars[2].lb = 0

\* mdl.print_information(), rmdl.print_information()
PrintInformation ==
  /\ pc \in {"L26", "L81"}
  /\ pc' = NextPc(pc)
  /\ UNCHANGED <<mdl, rmdl, rrmdl, sols, cpx, lastRead>>

\* s = mdl.solve(), s1 = ..., s2 = ..., s3 = ...
SolveTarget(l) ==
  IF l = "L29" THEN "s" ELSE IF l = "L56" THEN "s1" ELSE IF l = "L65" THEN "s2" ELSE "s3"

Solve ==
  /\ pc \in {"L29", "L56", "L65", "L67"}
  /\ \E sol \in SolveOutcomes(mdl) :
       /\ mdl' = Solved(mdl, sol)
       /\ sols' = [sols EXCEPT ![SolveTarget(pc)] = sol]
  /\ pc' = NextPc(pc)
  /\ UNCHANGED <<rmdl, rrmdl, cpx, lastRead>>

\* rs = rmdl.solve()
SolveRelaxed ==
  /\ pc = "L82"
  /\ \E sol \in SolveOutcomes(rmdl) :
       /\ rmdl' = Solved(rmdl, sol)
       /\ sols' = [sols EXCEPT !["rs"] = sol]
  /\ pc' = NextPc(pc)
  /\ UNCHANGED <<mdl, rrmdl, cpx, lastRead>>

\* A display that tolerates a missing solution.
DisplayNeverFails(sol) == FALSE

\* s.display(): solve() returned None when it found no solution, and None has
\* no display: the script ends with the exception.
DisplayFails(sol) == sol.status # "optimal"

Shown(l) ==
  IF l \in {"L32", "L68"} THEN "s" ELSE IF l = "L57" THEN "s1"
  ELSE IF l = "L69" THEN "s2" ELSE IF l = "L70" THEN "s3" ELSE "rs"

Display ==
  /\ pc \in {"L32", "L57", "L68", "L69", "L70", "L83"}
  /\ pc' = IF DisplayFails(sols[Shown(pc)]) THEN "crashed" ELSE NextPc(pc)
  /\ UNCHANGED <<mdl, rmdl, rrmdl, sols, cpx, lastRead>>

\* A read of a solution-derived field of model m (named which) at line l.
ReadOf(l, field, which, m) ==
  [at |-> l, field |-> field, model |-> which,
   solved |-> m.solved, continuous |-> AllContinuous(m)]

HasSolution(m) == m.sol.status = "optimal"

\* ct.dual_value and ct.basis_status (lines 36-38), and line 84 on rmdl.
ReadDual ==
  /\ pc \in {"L36", "L37", "L38", "L84"}
  /\ LET m == IF pc = "L84" THEN rmdl ELSE mdl
     IN  IF HasSolution(m)
         THEN /\ lastRead' = ReadOf(pc, "dual_value", IF pc = "L84" THEN "rmdl" ELSE "mdl", m)
              /\ pc' = NextPc(pc)
         ELSE /\ lastRead' = lastRead
              /\ pc' = "crashed"
  /\ UNCHANGED <<mdl, rmdl, rrmdl, sols, cpx>>

\* ct.slack_value and ct.basis_status (lines 41-43).
ReadSlack ==
  /\ pc \in {"L41", "L42", "L43"}
  /\ IF HasSolution(mdl)
     THEN /\ lastRead' = ReadOf(pc, "slack_value", "mdl", mdl)
          /\ pc' = NextPc(pc)
     ELSE /\ lastRead' = lastRead
          /\ pc' = "crashed"
  /\ UNCHANGED <<mdl, rmdl, rrmdl, sols, cpx>>

\* cpx = mdl.get_engine().get_cplex()
GetCplex ==
  /\ pc = "L46"
  /\ cpx' = "mdl"
  /\ pc' = NextPc(pc)
  /\ UNCHANGED <<mdl, rmdl, rrmdl, sols, lastRead>>

\* cpx.solution.sensitivity.rhs() (line 47), .objective() (lines 61, 62):
\* ranging of the model cpx is the engine of.
Ranging ==
  /\ pc \in {"L47", "L61", "L62"}
  /\ cpx = "mdl"
  /\ lastRead' = ReadOf(pc, IF pc = "L47" THEN "rhs_ranging" ELSE "objective_ranging",
                        "mdl", mdl)
  /\ pc' = NextPc(pc)
  /\ UNCHANGED <<mdl, rmdl, rrmdl, sols, cpx>>

\* overtime = mdl.continuous_var(name='overtime', ub=4)
AddOvertime ==
  /\ pc = "L53"
  /\ mdl' = continuous_var(mdl, "overtime", 0, TRUE, 4)
  /\ pc' = NextPc(pc)
  /\ UNCHANGED <<rmdl, rrmdl, sols, cpx, lastRead>>

\* expr.solution_value: the value of a linear expression in the model's last
\* solution.
ExprValue(e, sol) ==
  LET x == sol.x
      den == x[1][2] * x[2][2] * x[3][2]
      num == e.const * den + e.coefs[1] * x[1][1] * x[2][2] * x[3][2]
                           + e.coefs[2] * x[2][1] * x[1][2] * x[3][2]
                           + e.coefs[3] * x[3][1] * x[1][2] * x[2][2]
  IN  Rat(num, den)

\* ct_machine_1.rhs = ct_machine_1.rhs.solution_value + overtime
\* (the right-hand side read is a constant expression, so its value is whole).
SetRhs ==
  /\ pc = "L54"
  /\ IF HasSolution(mdl)
     THEN /\ lastRead' = ReadOf(pc, "solution_value", "mdl", mdl)
          /\ mdl' = set_rhs(mdl, 1, RatFloor(ExprValue(mdl.cts[1].rhs, mdl.sol)), Unit(3))
          /\ pc' = NextPc(pc)
     ELSE /\ lastRead' = lastRead
          /\ mdl' = mdl
          /\ pc' = "crashed"
  /\ UNCHANGED <<rmdl, rrmdl, sols, cpx>>

\* The overtime cost entered with the wrong sign.
OvertimeObjectiveSignSlip == <<300, 200, 100>>

\* mdl.maximize(...) at lines 55, 64, 66.
OvertimeObjective == <<300, 200, -100>>

ObjectiveAt(l) ==
  IF l = "L55" THEN OvertimeObjective
  ELSE IF l = "L64" THEN <<300, 600, 0>> ELSE <<300, 700, 0>>

Maximize ==
  /\ pc \in {"L55", "L64", "L66"}
  /\ mdl' = maximize(mdl, ObjectiveAt(pc))
  /\ pc' = NextPc(pc)
  /\ UNCHANGED <<rmdl, rrmdl, sols, cpx, lastRead>>

\* desk.reduced_cost, cell.reduced_cost
ReadReducedCost ==
  /\ pc \in {"L74", "L75"}
  /\ IF HasSolution(mdl)
     THEN /\ lastRead' = ReadOf(pc, "reduced_cost", "mdl", mdl)
          /\ pc' = NextPc(pc)
     ELSE /\ lastRead' = lastRead
          /\ pc' = "crashed"
  /\ UNCHANGED <<mdl, rmdl, rrmdl, sols, cpx>>

\* rmdl = LinearRelaxer.make_relaxed_model(mdl)
Relax ==
  /\ pc = "L80"
  /\ LET r == make_relaxed_model(mdl)
     IN  /\ mdl' = r.source
         /\ rmdl' = r.relaxed
  /\ pc' = NextPc(pc)
  /\ UNCHANGED <<rrmdl, sols, cpx, lastRead>>

Next ==
  \/ PrintInformation
  \/ Solve
  \/ Display
  \/ ReadDual
  \/ ReadSlack
  \/ GetCplex
  \/ Ranging
  \/ AddOvertime
  \/ SetRhs
  \/ Maximize
  \/ ReadReducedCost
  \/ Relax
  \/ SolveRelaxed

Spec == Init /\ [][Next]_vars


(***************************************************************************)
(* Properties of the script.                                               *)
(***************************************************************************)

\* C4 as stated: in the example the first solve returns objective value
\* 1600 at desk = 0, cell = 8, and no constraint is violated there.
C4_Original ==
  (IsExample /\ sols["s"].status # "none") =>
     /\ sols["s"].status = "optimal"
     /\ sols["s"].obj = RatInt(1600)
     /\ sols["s"].x = <<RatInt(0), RatInt(8), RatInt(0)>>
     /\ \A i \in 1..3 : RatLeq(RatInt(0), sols["s"].slack[i])

\* C4 (amended): in the example the first solve returns the optimal
\* objective value 4000/3 (1333.33), attained at desk = cell = 8/3, and that
\* point satisfies all three constraints.
C4_FirstSolveOptimum ==
  (IsExample /\ sols["s"].status # "none") =>
     /\ sols["s"].status = "optimal"
     /\ sols["s"].obj = <<4000, 3>>
     /\ sols["s"].x = <<<<8, 3>>, <<8, 3>>, RatInt(0)>>
     /\ \A i \in 1..3 : RatLeq(RatInt(0), sols["s"].slack[i])

C4_Witness == IsExample /\ pc = "L32" /\ sols["s"].status = "optimal"

\* C3 as stated: once the overtime scenario has been built and solved the
\* base model is unchanged: its variables are desk and cell, the right-hand
\* side of machine_1 is 8, and (before the next scenario sets its own
\* objective) its objective is 300 desk + 200 cell.
C3_Original ==
  sols["s1"].status = "optimal" =>
     /\ NVars(mdl) = 2
     /\ mdl.cts[1].rhs = [const |-> 8, coefs |-> Zero3]
     /\ (pc \in {"L57", "L61", "L62", "L64"} => mdl.obj = <<300, 200, 0>>)

\* C3 (amended): the overtime scenario is applied to the base model in
\* place: once it has been built and solved the model's variables are desk,
\* cell and overtime, the right-hand side of machine_1 is 8 + overtime, and
\* (until line 64 replaces it) the objective is 300 desk + 200 cell - 100
\* overtime; every later scenario runs on that modified model.
C3_ScenarioMutatesBase ==
  sols["s1"].status = "optimal" =>
     /\ NVars(mdl) = 3
     /\ mdl.vars[3].name = "overtime"
     /\ mdl.cts[1].rhs = [const |-> 8, coefs |-> <<0, 0, 1>>]
     /\ (pc \in {"L57", "L61", "L62", "L64"} => mdl.obj = <<300, 200, -100>>)

C3_Witness ==
  /\ pc = "L80"
  /\ sols["s3"].status = "optimal"
  /\ NVars(mdl) = 3
  /\ mdl.cts[1].rhs.coefs = <<0, 0, 1>>

Complementary(sol) ==
  \A i \in 1..3 : RatMul(sol.slack[i], sol.dual[i]) = RatInt(0)

\* C5: in every solution of a feasible continuous linear program, for each
\* constraint slack value * dual value = 0: a binding constraint has slack 0
\* and a constraint with slack > 0 has dual value 0.
C5_ComplementarySlackness ==
  \A n \in DOMAIN sols : sols[n].status = "optimal" => Complementary(sols[n])

C5_Witness ==
  /\ IsExample
  /\ sols["s"].status = "optimal"
  /\ sols["s"].slack[1] = RatInt(0) /\ RatLt(RatInt(0), sols["s"].dual[1])
  /\ sols["s"].slack[2] = RatInt(0) /\ RatLt(RatInt(0), sols["s"].dual[2])
  /\ RatLt(RatInt(0), sols["s"].slack[3]) /\ sols["s"].dual[3] = RatInt(0)

Failed == \E n \in DOMAIN sols : sols[n].status \in {"infeasible", "unbounded"}

OvertimeValue(t) == OptimalValue(Fixed(mdl, 3, t))

\* C6: in the overtime scenario of the example the optimal objective value
\* is monotone in the value overtime takes (the solve attains the best of
\* them), and its gain over the base optimum is at most (dual value of
\* machine_1 in the base solution) * (upper bound 4 of overtime).
C6_OvertimeGain ==
  (IsExample /\ pc = "L57" /\ sols["s1"].status = "optimal") =>
     LET T == 0..mdl.vars[3].ub
     IN  /\ \A t \in T : HasOptimum(Fixed(mdl, 3, t))
         /\ \/ \A t1, t2 \in T : t1 <= t2 => RatLeq(OvertimeValue(t1), OvertimeValue(t2))
            \/ \A t1, t2 \in T : t1 <= t2 => RatLeq(OvertimeValue(t2), OvertimeValue(t1))
         /\ \A t \in T : RatLeq(OvertimeValue(t), sols["s1"].obj)
         /\ \E t \in T : OvertimeValue(t) = sols["s1"].obj
         /\ RatLeq(RatSub(sols["s1"].obj, sols["s"].obj),
                   RatMul(sols["s"].dual[1], RatInt(mdl.vars[3].ub)))

C6_Witness ==
  /\ IsExample
  /\ pc = "L57"
  /\ sols["s1"].status = "optimal"
  /\ sols["s1"].x[3] = RatInt(4)
  /\ RatLt(sols["s"].obj, sols["s1"].obj)
  /\ RatLt(OvertimeValue(0), OvertimeValue(4))


(***************************************************************************)
(* The relaxer applied to models of the telephone family: desk and cell    *)
(* continuous or integer, at either stage of the script (before or after   *)
(* the overtime variable is added) and under each objective the script     *)
(* sets.  The model is solved, relaxed and solved, relaxed again and       *)
(* solved.                                                                 *)
(***************************************************************************)
Domains == {"continuous", "integer"}

\* Lines 53-54 applied to a model whose machine_1 right-hand side is 8.
WithOvertime(m) == set_rhs(continuous_var(m, "overtime", 0, TRUE, 4), 1, 8, Unit(3))

RelaxFamily ==
  LET Bases == {TelephoneModel(dd, cd, dl, cl) :
                  dd \in Domains, cd \in Domains, dl \in 0..MaxLb, cl \in 0..MaxLb}
  IN  {maximize(b, ObjectiveAt(l)) : b \in Bases, l \in {"L64", "L66"}}
      \cup Bases
      \cup {maximize(WithOvertime(b), ObjectiveAt(l)) : b \in Bases, l \in {"L55", "L64", "L66"}}

InitRelax ==
  /\ pc = "X1"
  /\ mdl \in RelaxFamily
  /\ rmdl = Unbound
  /\ rrmdl = Unbound
  /\ sols = [n \in {"s", "s1", "s2", "s3", "rs", "rrs"} |-> NoSolution]
  /\ cpx = "unset"
  /\ lastRead = NoRead

\* mdl.solve(), as at line 67
SolveOriginal ==
  /\ pc = "X1"
  /\ \E sol \in SolveOutcomes(mdl) :
       /\ mdl' = Solved(mdl, sol)
       /\ sols' = [sols EXCEPT !["s3"] = sol]
  /\ pc' = "X2"
  /\ UNCHANGED <<rmdl, rrmdl, cpx, lastRead>>

\* rmdl = LinearRelaxer.make_relaxed_model(mdl)
RelaxOnce ==
  /\ pc = "X2"
  /\ LET r == make_relaxed_model(mdl)
     IN  /\ mdl' = r.source
         /\ rmdl' = r.relaxed
  /\ pc' = "X3"
  /\ UNCHANGED <<rrmdl, sols, cpx, lastRead>>

\* rs = rmdl.solve()
SolveOnceRelaxed ==
  /\ pc = "X3"
  /\ \E sol \in SolveOutcomes(rmdl) :
       /\ rmdl' = Solved(rmdl, sol)
       /\ sols' = [sols EXCEPT !["rs"] = sol]
  /\ pc' = "X4"
  /\ UNCHANGED <<mdl, rrmdl, cpx, lastRead>>

\* LinearRelaxer.make_relaxed_model(rmdl)
RelaxTwice ==
  /\ pc = "X4"
  /\ LET r == make_relaxed_model(rmdl)
     IN  /\ rmdl' = r.source
         /\ rrmdl' = r.relaxed
  /\ pc' = "X5"
  /\ UNCHANGED <<mdl, sols, cpx, lastRead>>

\* solve() of the twice relaxed model
SolveTwiceRelaxed ==
  /\ pc = "X5"
  /\ \E sol \in SolveOutcomes(rrmdl) :
       /\ rrmdl' = Solved(rrmdl, sol)
       /\ sols' = [sols EXCEPT !["rrs"] = sol]
  /\ pc' = "X6"
  /\ UNCHANGED <<mdl, rmdl, cpx, lastRead>>

NextRelax ==
  \/ SolveOriginal
  \/ RelaxOnce
  \/ SolveOnceRelaxed
  \/ RelaxTwice
  \/ SolveTwiceRelaxed

SpecRelax == InitRelax /\ [][NextRelax]_vars

\* Two solve results agree: both optimal with the same objective value, or
\* both without a solution for the same reason.
SameOptimum(a, b) ==
  /\ a.status = b.status
  /\ a.status = "optimal" => a.obj = b.obj

====
